---- MODULE Spec2Model ----
(***************************************************************************)
(* McpSessionManager: the registry of MCP sessions (static `instances`),   *)
(* the per-session connection state machine (connect / doConnect /         *)
(* getClient / cleanup), the idle sweep driven by each manager's           *)
(* cleanupTimer, and cleanupAllSessions.                                   *)
(*                                                                         *)
(* The repository holds two copies of the class.  `variant` selects which  *)
(* copy a behaviour runs: "part_000" (src/unnamed/part_000, with the       *)
(* liveness probe and the timestamp salt) or "ts"                          *)
(* (src/nodes/McpClient/McpSessionManager.ts).  Code that is identical in  *)
(* both copies is modelled once.                                           *)
(*                                                                         *)
(* Every `await` of the source is a point where an action ends: the        *)
(* continuation is a separate action enabled once the awaited promise has  *)
(* settled.                                                                *)
(***************************************************************************)
EXTENDS Integers, Sequences, FiniteSets, Bags, TLC

\* ---------------------------------------------------------------- bounds
NumSessions == 2      \* session ids handed to getInstance
MaxHandles == 2       \* McpSessionManager objects ever constructed
MaxAttempts == 3      \* doConnect executions (each brings one Client and one Transport)
MaxCalls == 3         \* connect / getClient / cleanupAllSessions calls
MaxCleanups == 2      \* cleanup() executions suspended in `await transport.close()`
MaxTicks == 2         \* clock advances
MaxOps == 6           \* operations of the environment: API calls, clock steps, transport errors
MaxIds == 2           \* session ids derived

\* ------------------------------------------------------ program constants
SESSION_TIMEOUT == 1800000     \* 30 * 60 * 1000
CLEANUP_INTERVAL == 300000     \* 5 * 60 * 1000

\* the clock advances in steps of the session timeout: a manager left alone
\* is exactly at the timeout after one step and past it after two
TickStep == SESSION_TIMEOUT
StartTime == CLEANUP_INTERVAL

SessionIds == 1..NumSessions
Handles == 1..MaxHandles
Attempts == 1..MaxAttempts
Variants == {"part_000", "ts"}

VARIABLES
    variant,     \* which copy of the class is running
    now,         \* Date.now()
    instances,   \* McpSessionManager.instances: session id -> manager object (0: no entry)
    mgr,         \* the McpSessionManager objects: their private fields
    dc,          \* the doConnect executions; execution d constructs Client d on Transport d
    tr,          \* the transports
    cu,          \* bag of the cleanup() executions suspended in `await this.transport.close()`
    call,        \* bag of the connect / getClient / cleanupAllSessions calls, running and ended
    ops,         \* the number of operations the environment has performed
    idlog,       \* history: the session ids derived so far, in order, each with the
                 \* manager that getInstance returned for it
    cleaned,     \* history: per manager, how many cleanup() calls of a holder have
                 \* completed in succession (2: two or more), nothing else having
                 \* changed the manager since the first of them completed
    disturbed    \* history: the managers that a cleanup, a transport error or a
                 \* failed liveness probe has touched

vars == <<variant, now, instances, mgr, dc, tr, cu, call, disturbed, ops, cleaned, idlog>>

\* A continuation of an `await` on a promise that has settled without I/O is a
\* microtask: the event loop runs it before any task (an API call made by
\* another execution, an I/O completion, a timer).  Continuation: some
\* microtask is queued.
Continuation ==
    \/ \E c \in BagToSet(call) :
           \/ c.pc \in {"awaitShared", "awaitOwn"} /\ dc[c.d].st \in {"resolved", "rejected"}
           \/ c.pc = "validate" /\ c.d = 0
           \/ /\ c.pc = "awaitAll"
              /\ c.err # 0 \/ \A k \in BagToSet(cu) : ~(k.by = "cleanupAll" /\ k.par = c.d)
    \/ \E d \in DOMAIN dc : dc[d].st = "cleanup" /\ dc[d].cres # "pending"

\* a task may run: the microtask queue is empty
Task == ~Continuation

\* an operation of the environment: a call of the API, a step of the clock or
\* a transport error
Op == Task /\ ops < MaxOps /\ ops' = ops + 1

\* a step that is not the completion of a holder's cleanup() call: the count of
\* a manager survives the step only if the step leaves the manager as it was
KeepCleaned == cleaned' = [h \in Handles |-> IF mgr'[h] = mgr[h] THEN cleaned[h] ELSE 0]

\* ------------------------------------------------------------ field values
NoMgr == [sessionId |-> 0, client |-> 0, transport |-> 0, isConnected |-> FALSE,
          connectionPromise |-> 0, lastUsed |-> 0, cleanupTimer |-> 0]
NoAttempt == [h |-> 0, st |-> "none", cres |-> "ok", raced |-> FALSE]
NoTransport == [st |-> "none", closes |-> 0]
NoCall == [kind |-> "none", pc |-> "free", h |-> 0, d |-> 0, res |-> 0, err |-> 0,
           at |-> "", epoch |-> 0, stale |-> FALSE, old |-> FALSE, ok |-> FALSE, snap |-> {}]

\* a fired timer leaves a stale (truthy) Timeout object in cleanupTimer
FiredTimer == -1
\* the error `Failed to establish MCP connection` of connect(); an error of
\* doConnect is identified by the execution d that raised it: its message is
\* `Failed to connect MCP session ${sessionId}: ${cause}`
GenericError == -1

Created == {h \in Handles : mgr[h].sessionId # 0}
Started == {d \in Attempts : dc[d].st # "none"}
AttemptsOn(h) == {d \in Started : dc[d].h = h}
Pending(d) == dc[d].st \in {"cleanup", "handshake"}
Settled(d) == dc[d].st \in {"resolved", "rejected"}
Registered == {instances[s] : s \in {x \in SessionIds : instances[x] # 0}}
CallRecs == BagToSet(call)
CuRecs == BagToSet(cu)

Min(S) == CHOOSE x \in S : \A y \in S : x <= y
Replace(B, old, new) == (B (-) SetToBag({old})) (+) SetToBag({new})

\* ----------------------------------------------------------------- Init
Init ==
    /\ variant \in Variants
    /\ now = StartTime
    /\ instances = [s \in SessionIds |-> 0]
    /\ mgr = [h \in Handles |-> NoMgr]
    /\ dc = [d \in Attempts |-> NoAttempt]
    /\ tr = [d \in Attempts |-> NoTransport]
    /\ cu = EmptyBag
    /\ call = EmptyBag
    /\ disturbed = {}
    /\ ops = 0
    /\ cleaned = [h \in Handles |-> 0]
    /\ idlog = <<>>

\* ------------------------------------------------------------- the clock
\* a timer that is due fires before the clock advances by another step
TimerDue(h) == mgr[h].cleanupTimer > 0 /\ now >= mgr[h].cleanupTimer

Tick ==
    /\ now < StartTime + MaxTicks * TickStep
    /\ \A h \in Handles : ~TimerDue(h)
    /\ now' = now + TickStep
    /\ UNCHANGED <<idlog, variant, instances, mgr, dc, tr, cu, call, disturbed>>
    /\ Op
    /\ KeepCleaned

\* -------------------------------------------------------------- cleanup()
\* The world a cleanup() touches: the managers, the suspended cleanups and
\* the transports.
World == [mgr |-> mgr, cu |-> cu, tr |-> tr]

\* try { await this.transport.close() } catch (error) { console.error(...) }:
\* what cleanup() does with the outcome of close()
closeCatch_Rethrow(outcome) == IF outcome = "closeFailed" THEN "thrown" ELSE "logged"
closeCatch(outcome) == "logged"

\* cleanup(): this.transport = null; this.client = null; this.isConnected = false
cleared_KeepsTransport(m) == [m EXCEPT !.client = 0, !.isConnected = FALSE]
cleared(m) == [m EXCEPT !.transport = 0, !.client = 0, !.isConnected = FALSE]

\* cleanup() up to its first await.  by: who called it ("caller": a holder of
\* the manager, "sweep", "doConnect", "cleanupAll"); par: the doConnect
\* execution or the cleanupAllSessions call that awaits the returned promise.
cleanup(W, h, by, par) ==
    LET m == [W.mgr[h] EXCEPT !.cleanupTimer = 0]
        t == W.mgr[h].transport
    IN IF t # 0
       THEN [mgr |-> [W.mgr EXCEPT ![h] = m],
             cu |-> W.cu (+) SetToBag({[h |-> h, t |-> t, by |-> by, par |-> par]}),
             tr |-> [W.tr EXCEPT ![t] = [st |-> "closed", closes |-> @.closes + 1]]]
       ELSE [W EXCEPT !.mgr[h] = cleared(m)]

\* cleanup() of every manager of S, in turn
RECURSIVE cleanupEach(_, _, _, _)
cleanupEach(W, S, by, par) ==
    IF S = {} THEN W
    ELSE LET h == Min(S) IN cleanupEach(cleanup(W, h, by, par), S \ {h}, by, par)

\* history: the doConnect executions after a cleanup() call on each manager of
\* S; raced: cleanup() ran on the manager while the execution awaited its
\* handshake
raced(S) == [d \in Attempts |-> IF dc[d].st = "handshake" /\ dc[d].h \in S
                                 THEN [dc[d] EXCEPT !.raced = TRUE] ELSE dc[d]]

HoldingTransport(S) == {h \in S : mgr[h].transport # 0}
\* room for n more suspended cleanups
CanSuspend(n) == BagCardinality(cu) + n <= MaxCleanups
CanCall == BagCardinality(call) < MaxCalls

\* ------------------------------------------------------------ getInstance
\* new McpSessionManager(sessionId): the field initialisers and startCleanupTimer()
NewMgr(s) == [NoMgr EXCEPT !.sessionId = s, !.lastUsed = now,
                           !.cleanupTimer = now + CLEANUP_INTERVAL]

\* the session ids are names: a new one is the least not yet used
UsedSessions == {mgr[h].sessionId : h \in Created}

GetInstance(s) ==
    /\ \A x \in SessionIds : x < s => x \in UsedSessions
    /\ IF instances[s] = 0
       THEN /\ Handles \ Created # {}
            /\ LET h == Min(Handles \ Created)
               IN /\ instances' = [instances EXCEPT ![s] = h]
                  /\ mgr' = [mgr EXCEPT ![h] = NewMgr(s)]
       ELSE /\ mgr' = [mgr EXCEPT ![instances[s]].lastUsed = now]
            /\ UNCHANGED instances
    /\ UNCHANGED <<idlog, variant, now, dc, tr, cu, call, disturbed>>
    /\ Op
    /\ KeepCleaned

\* ---------------------------------------------------------------- connect
isSessionConnected(h) == mgr[h].isConnected /\ mgr[h].client # 0

\* A call that has ended, and what it returned or threw.  The record keeps
\*   ok:    the manager was connected and the call returned its client;
\*   old:   the client returned had been constructed before the call was issued;
\*   stale: the call was issued after a failed attempt, with none in flight,
\*          and threw the error of an attempt that it found rather than started.
Returned(c, res) ==
    [c EXCEPT !.pc = "returned", !.res = res, !.d = 0, !.epoch = 0,
              !.ok = mgr[c.h].isConnected /\ res # 0,
              !.old = res # 0 /\ res <= c.epoch]
Threw(c, err) ==
    [c EXCEPT !.pc = "threw", !.err = err, !.d = 0, !.epoch = 0,
              !.stale = c.at = "afterFail" /\ c.pc = "awaitShared"]

\* the manager is Disconnected and no attempt is in flight
Idle(h) == ~mgr[h].isConnected /\ \A d \in AttemptsOn(h) : ~Pending(d)

\* when a connect() call is issued on manager h:
\*   "conc":           h is fresh or its first attempt is in flight;
\*   "afterFail":      h is idle and an attempt on it has failed;
\*   "afterProbeFail": h is idle and a getClient() probe on it has failed;
\*   "afterReturn":    a connect() call on h has returned its client.
IssuedAt(h) ==
    IF \A d \in AttemptsOn(h) : Pending(d) THEN "conc"
    ELSE IF Idle(h) /\ \E d \in AttemptsOn(h) : dc[d].st = "rejected" THEN "afterFail"
    ELSE IF Idle(h) /\ \E g \in CallRecs : g.kind = "getClient" /\ g.h = h
                                            /\ g.pc = "probeFailed" THEN "afterProbeFail"
    ELSE IF \E g \in CallRecs : g.kind = "connect" /\ g.h = h /\ g.pc = "returned"
                                /\ g.res # 0 THEN "afterReturn"
    ELSE "other"

\* the record of a connect() call as it is issued on manager h
NewConnect(h) ==
    [NoCall EXCEPT !.kind = "connect", !.h = h, !.at = IssuedAt(h),
                   !.epoch = Cardinality(Started)]

\* this.connectionPromise = this.doConnect(transport); await this.connectionPromise
\* doConnect runs up to `await this.cleanup()`.  C: the calls without the one
\* that is running, c: the running call, M: the managers as the preceding
\* code of the same step left them.
startDoConnect(C, c, M) ==
    /\ Attempts \ Started # {}
    /\ M[c.h].transport # 0 => CanSuspend(1)
    /\ LET d == Min(Attempts \ Started)
           W == cleanup([mgr |-> M, cu |-> cu, tr |-> tr], c.h, "doConnect", d)
       IN /\ mgr' = [W.mgr EXCEPT ![c.h].connectionPromise = d]
          /\ cu' = W.cu
          /\ tr' = [W.tr EXCEPT ![d] = [st |-> "new", closes |-> 0]]
          /\ dc' = [dc EXCEPT ![d] = [h |-> c.h, st |-> "cleanup", raced |-> FALSE,
                        cres |-> IF M[c.h].transport # 0 THEN "pending" ELSE "ok"]]
          /\ call' = C (+) SetToBag({[c EXCEPT !.pc = "awaitOwn", !.d = d]})

\* connect() that starts a connection whether or not one is being attempted
connectRest_NoCoalesce(C, c, M) == startDoConnect(C, c, M)

\* connect() from `if (this.connectionPromise)` on
connectRest(C, c, M) ==
    IF M[c.h].connectionPromise # 0
    THEN /\ call' = C (+) SetToBag({[c EXCEPT !.pc = "awaitShared",
                                               !.d = M[c.h].connectionPromise]})
         /\ mgr' = M
         /\ UNCHANGED <<dc, tr, cu>>
    ELSE startDoConnect(C, c, M)

\* validateConnection() up to its await: the client that is probed
\* (0: `No client or transport available` is thrown; the caller's catch block
\* is then a continuation)
validateConnection(h) == IF mgr[h].client = 0 \/ mgr[h].transport = 0 THEN 0 ELSE mgr[h].client

\* connect(transport) of src/unnamed/part_000, up to its first await
ConnectCall(h) ==
    /\ variant = "part_000"
    /\ h \in Created
    /\ CanCall
    /\ LET c == NewConnect(h)
       IN IF mgr[h].isConnected /\ mgr[h].client # 0
          THEN /\ call' = call (+) SetToBag({[c EXCEPT !.pc = "validate",
                                                       !.d = validateConnection(h)]})
               /\ UNCHANGED <<mgr, dc, tr, cu>>
          ELSE connectRest(call, c, mgr)
    /\ UNCHANGED <<idlog, variant, now, instances, disturbed>>
    /\ Op
    /\ KeepCleaned

\* connect(transport) of McpSessionManager.ts, up to its first await
ConnectCallTs(h) ==
    /\ variant = "ts"
    /\ h \in Created
    /\ CanCall
    /\ LET c == NewConnect(h)
       IN IF mgr[h].isConnected /\ mgr[h].client # 0
          THEN /\ mgr' = [mgr EXCEPT ![h].lastUsed = now]
               /\ call' = call (+) SetToBag({Returned(c, mgr[h].client)})
               /\ UNCHANGED <<dc, tr, cu>>
          ELSE connectRest(call, c, mgr)
    /\ UNCHANGED <<idlog, variant, now, instances, disturbed>>
    /\ Op
    /\ KeepCleaned

\* connect(): `await this.validateConnection()` returned
ConnectValidated(c) ==
    /\ Task
    /\ c.kind = "connect" /\ c.pc = "validate"
    /\ c.d # 0 /\ tr[c.d].st = "open"
    /\ mgr' = [mgr EXCEPT ![c.h].lastUsed = now]
    /\ call' = Replace(call, c, Returned(c, mgr[c.h].client))
    /\ UNCHANGED <<idlog, variant, now, instances, dc, tr, cu, disturbed>>
    /\ UNCHANGED ops
    /\ KeepCleaned

\* connect(): `await this.validateConnection()` threw; the catch block, then
\* the rest of connect()
ConnectValidationFailed(c) ==
    /\ Task \/ c.d = 0
    /\ c.kind = "connect" /\ c.pc = "validate"
    /\ connectRest(call (-) SetToBag({c}), c,
           [mgr EXCEPT ![c.h] = [@ EXCEPT !.isConnected = FALSE, !.client = 0]])
    /\ disturbed' = disturbed \cup {c.h}
    /\ UNCHANGED <<idlog, variant, now, instances>>
    /\ UNCHANGED ops
    /\ KeepCleaned

\* The reactions of a promise run in the order in which they were registered,
\* and the caller that started doConnect awaits its promise before any other
\* caller can find it: that caller resumes first.
OwnerResumed(d) == \A o \in CallRecs : ~(o.pc = "awaitOwn" /\ o.d = d)

\* connect(): `await this.connectionPromise` of a caller that found an attempt
ConnectSharedSettled(c) ==
    /\ c.pc = "awaitShared"
    /\ Settled(c.d)
    /\ OwnerResumed(c.d)
    /\ IF dc[c.d].st = "rejected"
       THEN /\ call' = Replace(call, c, Threw(c, c.d))
            /\ UNCHANGED <<mgr, dc, tr, cu>>
       ELSE IF mgr[c.h].isConnected /\ mgr[c.h].client # 0
       THEN /\ mgr' = [mgr EXCEPT ![c.h].lastUsed = now]
            /\ call' = Replace(call, c, Returned(c, mgr[c.h].client))
            /\ UNCHANGED <<dc, tr, cu>>
       ELSE startDoConnect(call (-) SetToBag({c}), c, mgr)
    /\ UNCHANGED <<idlog, variant, now, instances, disturbed>>
    /\ UNCHANGED ops
    /\ KeepCleaned

\* connect(): `await this.connectionPromise` of the caller that started doConnect
ConnectOwnSettled(c) ==
    /\ c.pc = "awaitOwn"
    /\ Settled(c.d)
    /\ IF dc[c.d].st = "rejected"
       THEN /\ call' = Replace(call, c, Threw(c, c.d))
            /\ UNCHANGED mgr
       ELSE IF mgr[c.h].client = 0
       THEN /\ mgr' = [mgr EXCEPT ![c.h].connectionPromise = 0]
            /\ call' = Replace(call, c, Threw(c, GenericError))
       ELSE /\ mgr' = [mgr EXCEPT ![c.h] = [@ EXCEPT !.connectionPromise = 0, !.lastUsed = now]]
            /\ call' = Replace(call, c, Returned(c, mgr[c.h].client))
    /\ UNCHANGED <<idlog, variant, now, instances, dc, tr, cu, disturbed>>
    /\ UNCHANGED ops
    /\ KeepCleaned

\* -------------------------------------------------------------- doConnect
\* doConnect(): `await this.cleanup()` returned: new Client, transport.onerror,
\* client.connect(transport) up to its await; or cleanup() threw: the catch block
DoConnectCleaned(d) ==
    /\ dc[d].st = "cleanup" /\ dc[d].cres # "pending"
    /\ LET h == dc[d].h
       IN IF dc[d].cres = "threw"
          THEN /\ mgr' = [mgr EXCEPT ![h] = [@ EXCEPT !.isConnected = FALSE,
                                                !.client = 0, !.transport = 0]]
               /\ dc' = [dc EXCEPT ![d].st = "rejected"]
               /\ UNCHANGED tr
          ELSE /\ mgr' = [mgr EXCEPT ![h].client = d]
               /\ dc' = [dc EXCEPT ![d].st = "handshake"]
               /\ tr' = [tr EXCEPT ![d].st = "connecting"]
    /\ UNCHANGED <<idlog, variant, now, instances, cu, call, disturbed>>
    /\ UNCHANGED ops
    /\ KeepCleaned

\* doConnect() that does not set isConnected after the handshake
HandshakeOk_NotConnected(d) ==
    /\ Task
    /\ dc[d].st = "handshake"
    /\ mgr' = [mgr EXCEPT ![dc[d].h].transport = d]
    /\ dc' = [dc EXCEPT ![d].st = "resolved"]
    /\ tr' = [tr EXCEPT ![d].st = "open"]
    /\ UNCHANGED <<idlog, variant, now, instances, cu, call, disturbed>>
    /\ UNCHANGED ops
    /\ KeepCleaned

\* doConnect(): `await this.client.connect(transport)` returned
HandshakeOk(d) ==
    /\ Task
    /\ dc[d].st = "handshake"
    /\ mgr' = [mgr EXCEPT ![dc[d].h] = [@ EXCEPT !.transport = d, !.isConnected = TRUE]]
    /\ dc' = [dc EXCEPT ![d].st = "resolved"]
    /\ tr' = [tr EXCEPT ![d].st = "open"]
    /\ UNCHANGED <<idlog, variant, now, instances, cu, call, disturbed>>
    /\ UNCHANGED ops
    /\ KeepCleaned

\* doConnect(): `await this.client.connect(transport)` threw: the catch block
HandshakeFail(d) ==
    /\ Task
    /\ dc[d].st = "handshake"
    /\ mgr' = [mgr EXCEPT ![dc[d].h] = [@ EXCEPT !.isConnected = FALSE,
                                           !.client = 0, !.transport = 0]]
    /\ dc' = [dc EXCEPT ![d].st = "rejected"]
    /\ tr' = [tr EXCEPT ![d].st = "failed"]
    /\ UNCHANGED <<idlog, variant, now, instances, cu, call, disturbed>>
    /\ UNCHANGED ops
    /\ KeepCleaned

\* transport.onerror of src/unnamed/part_000
onerror(m) == [m EXCEPT !.isConnected = FALSE, !.client = 0, !.transport = 0]
\* transport.onerror of McpSessionManager.ts
onerrorTs(m) == [m EXCEPT !.isConnected = FALSE]

\* the transport of execution d reports an error
TransportError(d) ==
    /\ tr[d].st \in {"connecting", "open"}
    /\ mgr' = [mgr EXCEPT ![dc[d].h] = IF variant = "ts" THEN onerrorTs(@) ELSE onerror(@)]
    /\ disturbed' = disturbed \cup {dc[d].h}
    /\ UNCHANGED <<idlog, variant, now, instances, dc, tr, cu, call>>
    /\ Op
    /\ KeepCleaned

\* ------------------------------------------------- getClient, getClientSync
\* getClient() of src/unnamed/part_000, up to its await; a call on a manager
\* that is not connected returns null at once and changes nothing
GetClient(h) ==
    /\ variant = "part_000"
    /\ h \in Created
    /\ IF mgr[h].isConnected /\ mgr[h].client # 0
       THEN /\ CanCall
            /\ call' = call (+) SetToBag({[NoCall EXCEPT !.kind = "getClient", !.h = h,
                                !.pc = "validate", !.d = validateConnection(h)]})
            /\ Op
       ELSE UNCHANGED <<call, ops>>
    /\ UNCHANGED <<idlog, variant, now, instances, mgr, dc, tr, cu, disturbed, cleaned>>

\* getClient(): `await this.validateConnection()` returned
GetClientValidated(c) ==
    /\ Task
    /\ c.kind = "getClient" /\ c.pc = "validate"
    /\ c.d # 0 /\ tr[c.d].st = "open"
    /\ mgr' = [mgr EXCEPT ![c.h].lastUsed = now]
    /\ call' = Replace(call, c, Returned(c, mgr[c.h].client))
    /\ UNCHANGED <<idlog, variant, now, instances, dc, tr, cu, disturbed>>
    /\ UNCHANGED ops
    /\ KeepCleaned

\* getClient() whose catch block returns null and leaves the fields alone
GetClientValidationFailed_KeepsClient(c) ==
    /\ Task
    /\ c.kind = "getClient" /\ c.pc = "validate"
    /\ call' = Replace(call, c, [c EXCEPT !.pc = "probeFailed"])
    /\ disturbed' = disturbed \cup {c.h}
    /\ UNCHANGED <<idlog, variant, now, instances, mgr, dc, tr, cu>>
    /\ UNCHANGED ops
    /\ KeepCleaned

\* getClient(): `await this.validateConnection()` threw: the catch block;
\* null is returned (pc "probeFailed", d: the client that was probed)
GetClientValidationFailed(c) ==
    /\ Task \/ c.d = 0
    /\ c.kind = "getClient" /\ c.pc = "validate"
    /\ mgr' = [mgr EXCEPT ![c.h] = [@ EXCEPT !.isConnected = FALSE, !.client = 0]]
    /\ call' = Replace(call, c, [c EXCEPT !.pc = "probeFailed"])
    /\ disturbed' = disturbed \cup {c.h}
    /\ UNCHANGED <<idlog, variant, now, instances, dc, tr, cu>>
    /\ UNCHANGED ops
    /\ KeepCleaned

\* getClientSync() of src/unnamed/part_000 and getClient() of
\* McpSessionManager.ts: the same code
GetClientSync(h) ==
    /\ h \in Created
    /\ mgr[h].isConnected /\ mgr[h].client # 0
    /\ mgr' = [mgr EXCEPT ![h].lastUsed = now]
    /\ UNCHANGED <<idlog, variant, now, instances, dc, tr, cu, call, disturbed>>
    /\ Op
    /\ KeepCleaned

\* ---------------------------------------------------------------- cleanup
\* cleanup() called by a holder of the manager
Cleanup(h) ==
    /\ h \in Created
    /\ mgr[h].transport # 0 => CanSuspend(1)
    /\ LET W == cleanup(World, h, "caller", 0)
       IN /\ mgr' = W.mgr
          /\ cu' = W.cu
          /\ tr' = W.tr
    /\ cleaned' = [cleaned EXCEPT ![h] = IF mgr[h].transport # 0 THEN 0
                                         ELSE IF @ = 0 THEN 1 ELSE 2]
    /\ disturbed' = disturbed \cup {h}
    /\ dc' = raced({h})
    /\ UNCHANGED <<idlog, variant, now, instances, call>>
    /\ Op

\* cleanup(): `await this.transport.close()` has settled with outcome
\* ("closed": it returned, "closeFailed": it threw); the rest of cleanup()
cleanupClosed(k, outcome) ==
    /\ Task
    /\ LET thrown == closeCatch(outcome) = "thrown"
       IN /\ mgr' = IF thrown THEN mgr ELSE [mgr EXCEPT ![k.h] = cleared(@)]
          /\ dc' = IF k.by = "doConnect"
                   THEN [dc EXCEPT ![k.par].cres = IF thrown THEN "threw" ELSE "ok"]
                   ELSE dc
          /\ call' = LET A == {c \in CallRecs : c.kind = "cleanupAll" /\ c.d = k.par
                                                 /\ c.pc = "awaitAll"}
                     IN IF k.by = "cleanupAll" /\ thrown /\ A # {}
                        THEN LET a == CHOOSE c \in A : TRUE
                             IN Replace(call, a, [a EXCEPT !.err = GenericError])
                        ELSE call
          /\ cleaned' = [cleaned EXCEPT ![k.h] = IF k.by = "caller" /\ ~thrown THEN 1 ELSE 0]
    /\ cu' = cu (-) SetToBag({k})
    /\ tr' = IF outcome = "closeFailed" THEN [tr EXCEPT ![k.t].st = outcome] ELSE tr
    /\ UNCHANGED <<idlog, variant, now, instances, disturbed>>
    /\ UNCHANGED ops

CloseOk(k) == cleanupClosed(k, "closed")
CloseFail(k) == cleanupClosed(k, "closeFailed")

\* ------------------------------------------------------------- the sweep
\* the sweep taking a manager at the timeout for expired
Expired_AtTimeout(h) == now - mgr[h].lastUsed >= SESSION_TIMEOUT
\* now - instance.lastUsed > McpSessionManager.SESSION_TIMEOUT
Expired(h) == now - mgr[h].lastUsed > SESSION_TIMEOUT
expiredSessions == {s \in SessionIds : instances[s] # 0 /\ Expired(instances[s])}

\* startCleanupTimer()
startCleanupTimer(m) == [m EXCEPT !.cleanupTimer = now + CLEANUP_INTERVAL]

\* the timer of manager h fires: checkAndCleanupExpiredSessions()
checkAndCleanupExpiredSessions(h) ==
    /\ Task
    /\ TimerDue(h)
    /\ LET ex == {instances[s] : s \in expiredSessions}
           W0 == [World EXCEPT !.mgr[h].cleanupTimer = FiredTimer]
           W == cleanupEach(W0, ex, "sweep", 0)
           left == [s \in SessionIds |-> IF s \in expiredSessions THEN 0 ELSE instances[s]]
       IN /\ CanSuspend(Cardinality(HoldingTransport(ex)))
          /\ instances' = left
          /\ mgr' = IF \E s \in SessionIds : left[s] # 0
                    THEN [W.mgr EXCEPT ![h] = startCleanupTimer(@)]
                    ELSE W.mgr
          /\ cu' = W.cu
          /\ tr' = W.tr
          /\ disturbed' = disturbed \cup ex
          /\ dc' = raced(ex)
    /\ UNCHANGED <<idlog, variant, now, call>>
    /\ UNCHANGED ops
    /\ KeepCleaned

\* ---------------------------------------------------- cleanupAllSessions
\* cleanupAllSessions() up to `await Promise.all(cleanupPromises)`
CleanupAllSessions ==
    /\ CanCall
    /\ CanSuspend(Cardinality(HoldingTransport(Registered)))
    /\ LET a == 1 + Cardinality({c \in CallRecs : c.kind = "cleanupAll"})
           W == cleanupEach(World, Registered, "cleanupAll", a)
       IN /\ mgr' = W.mgr
          /\ cu' = W.cu
          /\ tr' = W.tr
          /\ call' = call (+) SetToBag({[NoCall EXCEPT !.kind = "cleanupAll", !.pc = "awaitAll",
                         !.d = a,
                         !.snap = {mgr[h].transport : h \in HoldingTransport(Registered)}]})
    /\ disturbed' = disturbed \cup Registered
    /\ dc' = raced(Registered)
    /\ UNCHANGED <<idlog, variant, now, instances>>
    /\ Op
    /\ KeepCleaned

\* cleanupAllSessions(): Promise.all has settled
CleanupAllSettled(c) ==
    /\ c.pc = "awaitAll"
    /\ IF c.err # 0
       THEN /\ call' = Replace(call, c, [c EXCEPT !.pc = "threw"])
            /\ UNCHANGED instances
       ELSE /\ \A k \in CuRecs : ~(k.by = "cleanupAll" /\ k.par = c.d)
            /\ instances' = [s \in SessionIds |-> 0]
            /\ call' = Replace(call, c, [c EXCEPT !.pc = "returned"])
    /\ UNCHANGED <<idlog, variant, now, mgr, dc, tr, cu, disturbed>>
    /\ UNCHANGED ops
    /\ KeepCleaned

\* --------------------------------------------------------- specification
Next ==
    \/ Tick
    \/ \E s \in SessionIds : GetInstance(s)
    \/ \E h \in Handles : ConnectCall(h)
    \/ \E h \in Handles : ConnectCallTs(h)
    \/ \E c \in CallRecs : ConnectValidated(c)
    \/ \E c \in CallRecs : ConnectValidationFailed(c)
    \/ \E c \in CallRecs : ConnectSharedSettled(c)
    \/ \E c \in CallRecs : ConnectOwnSettled(c)
    \/ \E d \in Attempts : DoConnectCleaned(d)
    \/ \E d \in Attempts : HandshakeOk(d)
    \/ \E d \in Attempts : HandshakeFail(d)
    \/ \E d \in Attempts : TransportError(d)
    \/ \E h \in Handles : GetClient(h)
    \/ \E c \in CallRecs : GetClientValidated(c)
    \/ \E c \in CallRecs : GetClientValidationFailed(c)
    \/ \E h \in Handles : GetClientSync(h)
    \/ \E h \in Handles : Cleanup(h)
    \/ \E k \in CuRecs : CloseOk(k)
    \/ \E k \in CuRecs : CloseFail(k)
    \/ \E h \in Handles : checkAndCleanupExpiredSessions(h)
    \/ CleanupAllSessions
    \/ \E c \in CallRecs : CleanupAllSettled(c)

Spec == Init /\ [][Next]_vars

TypeOK ==
    /\ variant \in Variants
    /\ \A h \in Handles : mgr[h].client \in 0..MaxAttempts /\ mgr[h].transport \in 0..MaxAttempts

\* ------------------------------------------------------ session id derivation
\* Strings are sequences of UTF-16 code units.
RECURSIVE ToDecimal(_)
\* `${n}` and JSON.stringify(n) of an integer n >= 0
ToDecimal(n) == IF n < 10 THEN <<48 + n>> ELSE Append(ToDecimal(n \div 10), 48 + (n % 10))

\* a digit of Number.prototype.toString(36): 0-9, a-z
Digit36(v) == IF v < 10 THEN 48 + v ELSE 87 + v

RECURSIVE ToString36(_)
\* n.toString(36) of an integer n >= 0
ToString36(n) == IF n < 36 THEN <<Digit36(n)>> ELSE Append(ToString36(n \div 36), Digit36(n % 36))

\* A 32-bit integer is kept as its two 16-bit halves <<hi, lo>>: the unsigned
\* value is hi * 2^16 + lo, and it is negative as an int32 when hi >= 2^15.
Half == 65536

\* hash = ((hash << 5) - hash) + char; hash = hash & hash
hashStep(hash, char) ==
    LET lo == hash[2] * 31 + char
    IN <<(hash[1] * 31 + lo \div Half) % Half, lo % Half>>

\* hash is a 32-bit integer: each half is below 2^16
IsInt32(hash) == hash[1] < Half /\ hash[2] < Half

RECURSIVE hashOf(_, _, _)
\* for (let i = 0; i < str.length; i++) { ... }, from index i on, hash being
\* the value so far
hashOf(str, i, hash) ==
    CASE i > Len(str) -> hash
      [] i <= Len(str) /\ IsInt32(hash) -> hashOf(str, i + 1, hashStep(hash, str[i]))

\* Math.abs(hash), as halves again (the value of Math.abs(-2^31) is 2^31)
abs(hash) ==
    IF hash[1] < Half \div 2 THEN hash
    ELSE IF hash[2] = 0 THEN <<Half - hash[1], 0>>
    ELSE <<Half - 1 - hash[1], Half - hash[2]>>

RECURSIVE ToString36Wide(_)
\* v.toString(36) of a value kept as halves: long division by 36
ToString36Wide(v) ==
    IF v[1] = 0 THEN ToString36(v[2])
    ELSE LET mid == (v[1] % 36) * Half + v[2]
         IN Append(ToString36Wide(<<v[1] \div 36, mid \div 36>>), Digit36(mid % 36))

\* a connection configuration: its connectionType and, if hasTimestamp, its
\* timestamp field (the salt); the other optional fields are absent
ConnectionTypes == {<<115, 115, 101>>, <<99, 109, 100>>}
Salts == {0, StartTime, StartTime + TickStep}
Configs == [connectionType : ConnectionTypes, hasTimestamp : BOOLEAN, timestamp : Salts]
WellFormed(config) == config.hasTimestamp \/ config.timestamp = 0

\* JSON.stringify(connectionConfig)
stringify(config) ==
    <<123, 34, 99, 111, 110, 110, 101, 99, 116, 105, 111, 110, 84, 121, 112, 101, 34, 58, 34>> \o config.connectionType \o <<34>>
        \o (IF config.hasTimestamp THEN <<44, 34, 116, 105, 109, 101, 115, 116, 97, 109, 112, 34, 58>> \o ToDecimal(config.timestamp) ELSE <<>>)
        \o <<125>>

\* connectionConfig.timestamp || Date.now()
timestampOr(config) ==
    IF config.hasTimestamp /\ config.timestamp # 0 THEN config.timestamp ELSE now

\* generateSessionId(connectionConfig) of src/unnamed/part_000
generateSessionId(config) ==
    LET timestamp == timestampOr(config)
        combined == stringify(config) \o <<95>> \o ToDecimal(timestamp)
        hash == hashOf(combined, 1, <<0, 0>>)
    IN <<109, 99, 112, 95, 115, 101, 115, 115, 105, 111, 110, 95>> \o ToString36Wide(abs(hash)) \o <<95>> \o ToString36(timestamp)

\* generateSessionId(connectionConfig) of McpSessionManager.ts
generateSessionIdTs(config) ==
    LET configStr == stringify(config)
        hash == hashOf(configStr, 1, <<0, 0>>)
    IN <<109, 99, 112, 95, 115, 101, 115, 115, 105, 111, 110, 95>> \o ToString36Wide(abs(hash))

\* createNewSession(connectionConfig): { ...connectionConfig, timestamp: Date.now() }
createNewSession(config) ==
    generateSessionId([config EXCEPT !.hasTimestamp = TRUE, !.timestamp = now])

\* getInstance(sessionId) on the registry that the derivations so far have
\* filled: the manager registered under the id, or a new one
getInstance(id) ==
    IF \E i \in DOMAIN idlog : idlog[i].id = id
    THEN idlog[Min({i \in DOMAIN idlog : idlog[i].id = id})].handle
    ELSE Len(idlog) + 1

\* a node execution derives a session id with fn and gets the manager for it
Derive(fn, config, id) ==
    /\ Len(idlog) < MaxIds
    /\ WellFormed(config)
    /\ idlog' = Append(idlog, [fn |-> fn, config |-> config, at |-> now, id |-> id,
                               handle |-> getInstance(id)])
    /\ UNCHANGED <<variant, now, instances, mgr, dc, tr, cu, call, disturbed, ops, cleaned>>

GenerateSessionId(config) ==
    /\ variant = "part_000"
    /\ Derive("generateSessionId", config, generateSessionId(config))

GenerateSessionIdTs(config) ==
    /\ variant = "ts"
    /\ Derive("generateSessionId", config, generateSessionIdTs(config))

CreateNewSession(config) ==
    /\ variant = "part_000"
    /\ Derive("createNewSession", config, createNewSession(config))

IdNext ==
    \/ Tick
    \/ \E config \in Configs : GenerateSessionId(config)
    \/ \E config \in Configs : GenerateSessionIdTs(config)
    \/ \E config \in Configs : CreateNewSession(config)

IdSpec == Init /\ [][IdNext]_vars

\* ================================================================ claims
ConnectCallsOn(h) == {c \in CallRecs : c.kind = "connect" /\ c.h = h}
Ended(c) == c.pc \in {"returned", "threw"}

\* C1: when every connect() call on a manager was issued while the manager was
\* fresh or its first attempt was in flight, and no cleanup, transport error
\* or failed probe has touched the manager, doConnect has run exactly once
\* for it, and every call that has ended has returned the client of that one
\* attempt (the handshake succeeded) or has thrown the error of that one
\* attempt (the handshake failed).
C1_ConcurrentConnectsCoalesce ==
    \A h \in Created :
        (h \notin disturbed /\ \A c \in ConnectCallsOn(h) : c.at = "conc") =>
            /\ ConnectCallsOn(h) # {} => Cardinality(AttemptsOn(h)) = 1
            /\ \A c \in ConnectCallsOn(h) : Ended(c) =>
                   \A d \in AttemptsOn(h) :
                       \/ dc[d].st = "resolved" /\ c.pc = "returned" /\ c.res = d
                       \/ dc[d].st = "rejected" /\ c.pc = "threw" /\ c.err = d

\* two concurrent connect() calls on an undisturbed manager have both returned
\* the same client
C1_Witness ==
    \E c \in CallRecs :
        /\ c.kind = "connect" /\ c.pc = "returned" /\ c.at = "conc" /\ c.res # 0
        /\ c.h \notin disturbed
        /\ CopiesIn(c, call) >= 2

\* C2: a registered manager that nothing has accessed for longer than
\* SESSION_TIMEOUT is eventually removed by a sweep.  A sweep runs only when
\* an armed cleanupTimer fires, so as long as such a manager is registered
\* some manager's cleanupTimer is armed.
C2_IdleSessionSweepScheduled ==
    \A h \in Registered :
        Expired(h) => \E x \in Created : mgr[x].cleanupTimer > 0

\* C3: a connect() call issued on a manager that is Disconnected with no
\* attempt in flight after a failed attempt does not re-raise the failure of
\* the earlier attempt.
C3_FailedConnectNotTerminal ==
    \A c \in CallRecs : c.kind = "connect" => ~c.stale

\* C4: the manager registered under a session id is the one constructed for
\* it; when every handshake on it has succeeded and no cleanup, transport
\* error or failed probe has touched it, at most one doConnect has run for it
\* and every connect() call that has ended has returned the client of that
\* one attempt.
C4_SuccessiveConnectsReuse ==
    /\ \A s \in SessionIds : instances[s] # 0 => mgr[instances[s]].sessionId = s
    /\ \A h \in Created :
        (h \notin disturbed /\ \A d \in AttemptsOn(h) : dc[d].st # "rejected") =>
            /\ Cardinality(AttemptsOn(h)) <= 1
            /\ \A c \in ConnectCallsOn(h) :
                   Ended(c) => c.pc = "returned" /\ c.res \in AttemptsOn(h)

\* a connect() call that was issued after another had returned has returned the
\* same client, on an undisturbed manager
C4_Witness ==
    \E c1, c2 \in CallRecs :
        /\ c1.kind = "connect" /\ c2.kind = "connect" /\ c1.h = c2.h
        /\ c1.h \notin disturbed
        /\ c1.pc = "returned" /\ c2.pc = "returned"
        /\ c1.at = "conc" /\ c2.at = "afterReturn"
        /\ c1.res # 0 /\ c1.res = c2.res
        /\ Cardinality(Started) = 1

C6_CleanupAllSessions ==
    [][ /\ CleanupAllSessions =>
               \A h \in HoldingTransport(Registered) :
                   tr'[mgr[h].transport].closes = tr[mgr[h].transport].closes + 1
        /\ \A c \in CallRecs :
               CleanupAllSettled(c) =>
                   /\ instances' = [s \in SessionIds |-> 0]
                   /\ \A t \in c.snap : tr[t].closes >= 1
        /\ \A c \in BagToSet(call') : c.kind = "cleanupAll" => c.pc # "threw"
      ]_vars

\* cleanupAllSessions() has completed on a registry of two managers with
\* transports, and close() threw on one of the transports
C6_Witness ==
    \E c \in CallRecs :
        /\ c.kind = "cleanupAll" /\ c.pc = "returned"
        /\ Cardinality(c.snap) = 2
        /\ \E t \in c.snap : tr[t].st = "closeFailed"
        /\ \A s \in SessionIds : instances[s] = 0

\* C7: a cleanup() call made after a cleanup() call has completed, nothing
\* having changed the manager in between, invokes close() on no transport and
\* leaves the manager as the first call left it: no client, no transport, not
\* connected, no timer; and it completes without an error.
C7_CleanupTwice ==
    [][ \A h \in Handles :
            /\ (cleaned[h] >= 1 /\ Cleanup(h)) =>
                   /\ mgr'[h] = mgr[h]
                   /\ tr' = tr
                   /\ cu' = cu
                   /\ cleaned'[h] = 2
            /\ cleaned'[h] >= 1 =>
                   /\ mgr'[h].client = 0 /\ mgr'[h].transport = 0
                   /\ ~mgr'[h].isConnected /\ mgr'[h].cleanupTimer = 0
      ]_vars

\* two cleanup() calls have completed in succession on a manager that was
\* connected: close() has been invoked once on its transport
C7_Witness ==
    \E h \in Created :
        /\ cleaned[h] = 2
        /\ \E d \in AttemptsOn(h) : tr[d].st \in {"closed", "closeFailed"} /\ tr[d].closes = 1

\* C8: every connect() call that has ended has returned the client of a
\* connected manager or has thrown the error of a doConnect execution, whose
\* message names the session id and the cause.
C8_ConnectOutcome ==
    \A c \in CallRecs :
        (c.kind = "connect" /\ Ended(c)) =>
            \/ c.pc = "returned" /\ c.ok
            \/ c.pc = "threw" /\ c.err \in Attempts

Derivations(fn) == {i \in DOMAIN idlog : idlog[i].fn = fn}

\* C9: two generateSessionId calls with equal configurations that have no
\* timestamp field return the same session id, whatever the clock reads at
\* each call, and getInstance returns the same manager for both.
C9_StableIdDeterministic ==
    \A i, j \in Derivations("generateSessionId") :
        (idlog[i].config = idlog[j].config /\ ~idlog[i].config.hasTimestamp) =>
            idlog[i].id = idlog[j].id /\ idlog[i].handle = idlog[j].handle

\* C10: for one connection configuration, two generateSessionId calls with
\* distinct timestamps return distinct session ids, and so do two
\* createNewSession calls.
C10_FreshIdsUnique ==
    /\ \A i, j \in Derivations("generateSessionId") :
           ( /\ idlog[i].config.hasTimestamp /\ idlog[j].config.hasTimestamp
             /\ idlog[i].config.connectionType = idlog[j].config.connectionType
             /\ idlog[i].config.timestamp # idlog[j].config.timestamp ) =>
               idlog[i].id # idlog[j].id
    /\ \A i, j \in Derivations("createNewSession") :
           (i # j /\ idlog[i].config = idlog[j].config) => idlog[i].id # idlog[j].id

InProgress(h) == {d \in AttemptsOn(h) : Pending(d)}

\* C11: each manager has at most one doConnect execution in progress.
C11_OneAttemptInFlight ==
    \A h \in Created : Cardinality(InProgress(h)) <= 1

\* C12: when cleanup() has run on a manager while a doConnect execution was
\* awaiting its handshake and the handshake has then succeeded, once the
\* connect() call that started the execution has resumed, either a connect()
\* call has returned the client of the execution with the manager connected,
\* or close() has been invoked on the transport of the execution; the manager
\* does not hold that transport open with no client.
C12_CleanupDuringHandshake ==
    \A d \in Started :
        (dc[d].raced /\ dc[d].st = "resolved" /\ OwnerResumed(d)) =>
            /\ \/ \E c \in CallRecs : c.kind = "connect" /\ c.pc = "returned"
                                       /\ c.res = d /\ c.ok
               \/ tr[d].closes >= 1
            /\ ~(mgr[dc[d].h].transport = d /\ tr[d].st = "open" /\ mgr[dc[d].h].client = 0)

\* the transports of manager h on which the handshake has completed and
\* close() has not been invoked
OpenTransports(h) == {t \in AttemptsOn(h) : tr[t].st = "open"}

\* C13: a manager has at most one open transport, and when doConnect
\* constructs its Client, and when it installs its transport, close() has been
\* invoked on every transport installed on the manager before.
C13_OneLiveResource ==
    [][ /\ \A h \in Handles : Cardinality(OpenTransports(h)') <= 1
        /\ \A d \in Attempts :
               (DoConnectCleaned(d) /\ dc'[d].st = "handshake") =>
                   OpenTransports(dc[d].h) = {}
        /\ \A d \in Attempts :
               HandshakeOk(d) => OpenTransports(dc[d].h) = {}
      ]_vars

\* C14: a manager that is not connected and on which no doConnect execution is
\* running holds neither a client nor a transport.
C14_DisconnectedHoldsNothing ==
    \A h \in Created :
        (InProgress(h) = {} /\ ~mgr[h].isConnected) =>
            mgr[h].client = 0 /\ mgr[h].transport = 0

\* a cleanup() of manager h is in progress: close() has been invoked on the
\* transport of h and the cleanup() has not resumed
CleaningUp(h) == \E k \in CuRecs : k.h = h /\ mgr[h].transport = k.t

\* getClientSync(): the value it returns (0: null)
getClientSync(h) == IF mgr[h].isConnected /\ mgr[h].client # 0 THEN mgr[h].client ELSE 0

\* C15: while a cleanup() of a manager is in progress, isSessionConnected()
\* is false for it and getClientSync() does not return its client.
C15_NoReadDuringCleanup ==
    \A h \in Created :
        CleaningUp(h) => ~isSessionConnected(h) /\ getClientSync(h) = 0

\* the step ends a connect() or getClient() call on manager h that returns a client
ReturnsClient(h) ==
    \E c \in BagToSet(call') :
        /\ c.h = h /\ c.kind \in {"connect", "getClient"}
        /\ c.pc = "returned" /\ c.res # 0
        /\ CopiesIn(c, call') > CopiesIn(c, call)

\* C16: a step changes lastUsed of a manager only if it is a getInstance call
\* that returns the manager, a getClientSync() call that returns its client,
\* or the return of a client by a connect() or getClient() call on it; and
\* lastUsed never decreases.
C16_LastUsedOnAccessOnly ==
    [][ \A h \in Handles :
            mgr'[h].lastUsed # mgr[h].lastUsed =>
                /\ mgr'[h].lastUsed > mgr[h].lastUsed
                /\ \/ \E s \in SessionIds : GetInstance(s) /\ instances'[s] = h
                   \/ GetClientSync(h)
                   \/ ReturnsClient(h)
      ]_vars

\* C17: a sweep removes from the registry exactly the managers whose lastUsed
\* is more than SESSION_TIMEOUT before the time of the sweep; when it leaves
\* the registry non-empty it arms a timer CLEANUP_INTERVAL ahead, and when it
\* leaves the registry empty it arms none; a getInstance call that constructs
\* a manager arms the timer of that manager.
C17_SweepScheduling ==
    [][ /\ \A h \in Handles :
               checkAndCleanupExpiredSessions(h) =>
                   /\ \A s \in SessionIds :
                          instances'[s] =
                              IF instances[s] # 0
                                 /\ now - mgr[instances[s]].lastUsed > SESSION_TIMEOUT
                              THEN 0 ELSE instances[s]
                   /\ Registered' # {} => mgr'[h].cleanupTimer = now + CLEANUP_INTERVAL
                   /\ Registered' = {} =>
                          \A x \in Handles :
                              mgr'[x].cleanupTimer > 0 =>
                                  mgr'[x].cleanupTimer = mgr[x].cleanupTimer
        /\ \A s \in SessionIds :
               (GetInstance(s) /\ instances[s] = 0) =>
                   mgr'[instances'[s]].cleanupTimer = now + CLEANUP_INTERVAL
      ]_vars

\* a sweep has just removed an expired manager and left another registered:
\* the manager whose timer fired is the removed one, and its timer is armed
\* again
C17_Witness ==
    \E h1, h2 \in Created :
        /\ h1 \notin Registered /\ h2 \in Registered
        /\ mgr[h1].cleanupTimer = now + CLEANUP_INTERVAL
        /\ now - mgr[h1].lastUsed > SESSION_TIMEOUT
        /\ now - mgr[h2].lastUsed = SESSION_TIMEOUT

\* C18: when the probe of a connect() or getClient() call fails after the
\* client it probed has been replaced by a newly connected one, the manager
\* stays connected, keeps the new client, and close() is not invoked on the
\* new transport.
C18_LateProbeFailure ==
    [][ \A c \in CallRecs :
            ( /\ ConnectValidationFailed(c) \/ GetClientValidationFailed(c)
              /\ c.d # 0
              /\ isSessionConnected(c.h) /\ mgr[c.h].client # c.d ) =>
                /\ isSessionConnected(c.h)'
                /\ mgr'[c.h].client = mgr[c.h].client
                /\ tr'[mgr[c.h].client].closes = tr[mgr[c.h].client].closes
      ]_vars

\* C19: close() is invoked at most once on each transport.
C19_CloseAtMostOnce ==
    \A t \in Attempts : tr[t].closes <= 1

\* C20: every manager that holds an open transport is in the registry.
C20_NoOrphanedConnection ==
    \A h \in Created :
        (mgr[h].transport # 0 /\ tr[mgr[h].transport].st = "open") => h \in Registered
====
